---- MODULE Spec2Model ----
(***************************************************************************)
(* Directive-resolution layer of scnlib: the argument numbering of         *)
(* parse_context_base, the three parse contexts (basic_parse_context,      *)
(* basic_scanf_parse_context, basic_empty_parse_context) and the argument  *)
(* lookup of arg_context_base.                                             *)
(***************************************************************************)
EXTENDS Integers, Sequences, FiniteSets, TLC

VARIABLES
    dialect,            \* "api", "brace", "scanf" or "empty": which context is driven
    nargs,              \* number of arguments held by m_args
    m_next_arg_id,      \* parse_context_base::m_next_arg_id
    calls,              \* history: one record per next_arg / arg call
    fmt,                \* the format string the context was constructed with
    m_str,              \* brace: the remaining view; scanf: the whole view
    m_it,               \* scanf: offset of m_it from m_str.begin()
    m_args_left,        \* basic_empty_parse_context::m_args_left
    m_should_skip_ws,   \* basic_empty_parse_context::m_should_skip_ws
    n_args,             \* the count basic_empty_context was constructed with
    handled,            \* history: number of arg_handled() calls made
    pc,                 \* position of the driving loop
    id,                 \* id text returned by the last parse_arg_id
    viol,               \* precondition violations hit so far (set of tags)
    last,               \* what the last step of the loop did
    skips               \* history: true should_skip_ws results since the
                        \* last arg_handled()

vars == <<dialect, nargs, m_next_arg_id, calls, fmt, m_str, m_it,
          m_args_left, m_should_skip_ws, n_args, handled, pc, id, viol, last,
          skips>>

----------------------------------------------------------------------------
(* Bounds of the model *)

MaxArgs == 2        \* m_args holds 0..MaxArgs arguments
MaxCalls == 3       \* direct next_arg / arg calls made on one context
MaxId == 3          \* explicit ids passed to arg(size_t) are 0..MaxId
SizeBits == 16      \* modelled width of size_t (id - 1 wraps modulo 2^SizeBits)
MaxLen == 3         \* format strings have 0..MaxLen characters
MaxCount == 3       \* basic_empty_context is constructed with -1..MaxCount
MaxScanfLen == 4    \* Percent formats over ScanfChars have 0..MaxScanfLen characters

Names == {"x", "y"}

Chars == {"{", "}", ":", "%", " ", "a", "0", "1"}

Digits == {"0", "1"}

Strings == UNION {[1..n -> Chars] : n \in 0..MaxLen}

\* the characters that matter to the Percent dialect, for longer formats
ScanfChars == {"%", " ", "a"}

ScanfStrings == UNION {[1..n -> ScanfChars] : n \in 0..MaxScanfLen}

NoStep ==
    [kind |-> "none", from |-> 0, to |-> 0, ch |-> "", term |-> 0,
     code |-> "none"]

----------------------------------------------------------------------------
(* Results of a lookup: either<arg_type> *)

Slot(i) == [kind |-> "slot", id |-> i, code |-> "none"]
EmptyArg == [kind |-> "empty", id |-> -1, code |-> "none"]
Failure(c) == [kind |-> "error", id |-> -1, code |-> c]

----------------------------------------------------------------------------
(* parse_context_base: the numbering state *)

\* a locked state reset to 0 by next_arg_id
next_arg_id_unlock(m) ==
    IF m >= 0 THEN [ret |-> m, m_next_arg_id |-> m + 1]
    ELSE [ret |-> 0, m_next_arg_id |-> 0]

\* the test  m_next_arg_id >= 0  left out
next_arg_id_noguard(m) ==
    [ret |-> m % (2 ^ SizeBits), m_next_arg_id |-> m + 1]

\* the post-increment written as a pre-increment
next_arg_id_preinc(m) ==
    IF m >= 0 THEN [ret |-> m + 1, m_next_arg_id |-> m + 1]
    ELSE [ret |-> 0, m_next_arg_id |-> m]

next_arg_id(m) ==
    IF m >= 0 THEN [ret |-> m, m_next_arg_id |-> m + 1]
    ELSE [ret |-> 0, m_next_arg_id |-> m]

\* the assignment  m_next_arg_id = -1  left out
check_arg_id_nolock(m, i) ==
    IF m > 0 THEN [ret |-> FALSE, m_next_arg_id |-> m]
    ELSE [ret |-> TRUE, m_next_arg_id |-> m]

\* the comparison  > 0  written as  >= 0
check_arg_id_ge(m, i) ==
    IF m >= 0 THEN [ret |-> FALSE, m_next_arg_id |-> m]
    ELSE [ret |-> TRUE, m_next_arg_id |-> -1]

check_arg_id(m, i) ==
    IF m > 0 THEN [ret |-> FALSE, m_next_arg_id |-> m]
    ELSE [ret |-> TRUE, m_next_arg_id |-> -1]

\* basic_parse_context_base::check_arg_id(basic_string_view): empty body
check_arg_id_name(m, name) == [ret |-> "void", m_next_arg_id |-> m]

----------------------------------------------------------------------------
(* The ArgNumbering contract: a tagged three-state value *)

AbsInit == [tag |-> "uninitialized", counter |-> 0]

\* next_automatic_id: hands out the counter unless explicit-locked
abs_next_automatic_id(a) ==
    IF a.tag \in {"uninitialized", "automatic"}
    THEN [ret |-> a.counter,
          st |-> [tag |-> "automatic", counter |-> a.counter + 1]]
    ELSE [ret |-> 0, st |-> a]

\* lock_explicit: accepted unless automatic numbering has begun
abs_lock_explicit(a, i) ==
    CASE a.tag = "uninitialized"
           -> [ret |-> TRUE, st |-> [tag |-> "explicit_locked", counter |-> 0]]
      [] a.tag = "automatic" -> [ret |-> FALSE, st |-> a]
      [] OTHER -> [ret |-> TRUE, st |-> a]

\* the signed integer that stands for a state of the contract
Encode(a) ==
    CASE a.tag = "uninitialized" -> 0
      [] a.tag = "automatic" -> a.counter
      [] OTHER -> -1

----------------------------------------------------------------------------
(* The argument store behind m_args: get(index) and check_id(index) *)

args_get(n, i) == IF i < n THEN Slot(i) ELSE EmptyArg

args_check_id(n, i) == i < n

----------------------------------------------------------------------------
(* arg_context_base *)

\* id - 1 on a size_t
size_t_dec(i) == (i - 1) % (2 ^ SizeBits)

\* the neighbour checked is id - 2 instead of id - 1
do_get_arg_off(n, i) ==
    LET a == args_get(n, i)
    IN  IF a.kind = "empty" /\ ~args_check_id(n, size_t_dec(size_t_dec(i)))
        THEN Failure("invalid_argument")
        ELSE a

do_get_arg(n, i) ==
    LET a == args_get(n, i)
    IN  IF a.kind = "empty" /\ ~args_check_id(n, size_t_dec(i))
        THEN Failure("invalid_argument")
        ELSE a

\* the counter kept when the lookup yields no slot
next_arg_sticky(m, n) ==
    LET r == next_arg_id(m)
        a == do_get_arg(n, r.ret)
    IN  [res |-> a, req |-> r.ret,
         m_next_arg_id |-> IF a.kind = "slot" THEN r.m_next_arg_id ELSE m]

next_arg(m, n) ==
    LET r == next_arg_id(m)
    IN  [res |-> do_get_arg(n, r.ret), req |-> r.ret,
         m_next_arg_id |-> r.m_next_arg_id]

arg(m, n, i) ==
    LET c == check_arg_id(m, i)
    IN  [res |-> IF c.ret THEN do_get_arg(n, i) ELSE EmptyArg, req |-> i,
         m_next_arg_id |-> c.m_next_arg_id]

\* the name passed through check_arg_id as an index would be
arg_named_locks(m, n, name) ==
    [res |-> EmptyArg, req |-> -1,
     m_next_arg_id |-> check_arg_id(m, 0).m_next_arg_id]

arg_named(m, n, name) ==
    [res |-> EmptyArg, req |-> -1, m_next_arg_id |-> m]

\* one entry of the call history
Call(op, r, pre) ==
    [op |-> op, req |-> r.req, res |-> r.res, pre |-> pre,
     post |-> r.m_next_arg_id]

----------------------------------------------------------------------------
(* Direct use of arg_context_base: any sequence of next_arg / arg calls *)

InitApi ==
    /\ dialect = "api"
    /\ nargs \in 0..MaxArgs
    /\ m_next_arg_id = 0
    /\ calls = <<>>
    /\ fmt = <<>>
    /\ m_str = <<>>
    /\ m_it = 0
    /\ m_args_left = 0
    /\ m_should_skip_ws = FALSE
    /\ n_args = 0
    /\ handled = 0
    /\ pc = "api"
    /\ id = <<>>
    /\ viol = {}
    /\ last = NoStep
    /\ skips = 0

ApiUnchanged ==
    UNCHANGED <<dialect, nargs, fmt, m_str, m_it, m_args_left,
                m_should_skip_ws, n_args, handled, pc, id, viol, last,
                skips>>

CallNextArg ==
    /\ dialect = "api"
    /\ Len(calls) < MaxCalls
    /\ LET r == next_arg(m_next_arg_id, nargs)
       IN  /\ m_next_arg_id' = r.m_next_arg_id
           /\ calls' = Append(calls, Call("next_arg", r, m_next_arg_id))
    /\ ApiUnchanged

CallArg ==
    /\ dialect = "api"
    /\ Len(calls) < MaxCalls
    /\ \E i \in 0..MaxId :
         LET r == arg(m_next_arg_id, nargs, i)
         IN  /\ m_next_arg_id' = r.m_next_arg_id
             /\ calls' = Append(calls, Call("arg", r, m_next_arg_id))
    /\ ApiUnchanged

CallArgNamed ==
    /\ dialect = "api"
    /\ Len(calls) < MaxCalls
    /\ \E name \in Names :
         LET r == arg_named(m_next_arg_id, nargs, name)
         IN  /\ m_next_arg_id' = r.m_next_arg_id
             /\ calls' = Append(calls, Call("arg_named", r, m_next_arg_id))
    /\ ApiUnchanged

NextApi == CallNextArg \/ CallArg \/ CallArgNamed

SpecApi == InitApi /\ [][NextApi]_vars

----------------------------------------------------------------------------
(* Direct use of parse_context_base: any sequence of next_arg_id and       *)
(* check_arg_id calls                                                      *)

InitNum ==
    /\ dialect = "num"
    /\ nargs = 0
    /\ m_next_arg_id = 0
    /\ calls = <<>>
    /\ fmt = <<>>
    /\ m_str = <<>>
    /\ m_it = 0
    /\ m_args_left = 0
    /\ m_should_skip_ws = FALSE
    /\ n_args = 0
    /\ handled = 0
    /\ pc = "num"
    /\ id = <<>>
    /\ viol = {}
    /\ last = NoStep
    /\ skips = 0

\* one entry of the call history
NumCall(op, i, r, pre) ==
    [op |-> op, req |-> i, res |-> r.ret, pre |-> pre,
     post |-> r.m_next_arg_id]

CallNextArgId ==
    /\ dialect = "num"
    /\ Len(calls) < MaxCalls
    /\ LET r == next_arg_id(m_next_arg_id)
       IN  /\ m_next_arg_id' = r.m_next_arg_id
           /\ calls' = Append(calls, NumCall("next_arg_id", -1, r,
                                             m_next_arg_id))
    /\ ApiUnchanged

CallCheckArgId ==
    /\ dialect = "num"
    /\ Len(calls) < MaxCalls
    /\ \E i \in 0..MaxId :
         LET r == check_arg_id(m_next_arg_id, i)
         IN  /\ m_next_arg_id' = r.m_next_arg_id
             /\ calls' = Append(calls, NumCall("check_arg_id", i, r,
                                               m_next_arg_id))
    /\ ApiUnchanged

CallCheckArgIdName ==
    /\ dialect = "num"
    /\ Len(calls) < MaxCalls
    /\ \E name \in Names :
         LET r == check_arg_id_name(m_next_arg_id, name)
         IN  /\ m_next_arg_id' = r.m_next_arg_id
             /\ calls' = Append(calls, NumCall("check_arg_id_name", -1, r,
                                               m_next_arg_id))
    /\ ApiUnchanged

NextNum == CallNextArgId \/ CallCheckArgId \/ CallCheckArgIdName

SpecNum == InitNum /\ [][NextNum]_vars

----------------------------------------------------------------------------
(* The locale: is_space *)

is_space(ch) == ch = " "

----------------------------------------------------------------------------
(* basic_parse_context: the brace dialect.  c.m_str is the remaining view. *)

brace_good(c) == Len(c.m_str) # 0

brace_advance(c) == [c EXCEPT !.m_str = Tail(@)]

brace_next(c) == Head(c.m_str)

RECURSIVE brace_skip_loop(_)
brace_skip_loop(c) ==
    IF brace_good(c) /\ is_space(brace_next(c))
    THEN brace_skip_loop(brace_advance(c))
    ELSE c

brace_should_skip_ws(c) ==
    LET d == brace_skip_loop(c)
    IN  [ret |-> d # c, c |-> d]

\* the escape {{ reported without consuming its first brace
brace_should_read_literal_noadv(c) ==
    IF brace_next(c) # "{"
    THEN [ret |-> TRUE,
          c |-> IF brace_next(c) = "}" THEN brace_advance(c) ELSE c]
    ELSE IF Len(c.m_str) > 1 /\ c.m_str[2] = "{"
         THEN [ret |-> TRUE, c |-> c]
         ELSE [ret |-> FALSE, c |-> c]

brace_should_read_literal(c) ==
    IF brace_next(c) # "{"
    THEN [ret |-> TRUE,
          c |-> IF brace_next(c) = "}" THEN brace_advance(c) ELSE c]
    ELSE IF Len(c.m_str) > 1 /\ c.m_str[2] = "{"
         THEN [ret |-> TRUE, c |-> brace_advance(c)]
         ELSE [ret |-> FALSE, c |-> c]

brace_check_literal(c, ch) == ch = brace_next(c)

brace_check_arg_begin(c) == brace_next(c) = "{"

brace_check_arg_end(c) == brace_next(c) = "}"

brace_arg_begin(c) == c

brace_arg_end(c) == c

brace_arg_handled(c) == c

\* the for loop of parse_arg_id: it is the view at the loop's start, i the
\* number of characters passed
RECURSIVE brace_parse_arg_id_loop(_, _, _)
brace_parse_arg_id_loop(c, it, i) ==
    IF ~brace_good(c)
    THEN [ok |-> FALSE, id |-> <<>>, code |-> "invalid_format_string", c |-> c]
    ELSE IF brace_check_arg_end(c)
    THEN [ok |-> TRUE, id |-> SubSeq(it, 1, i), code |-> "none", c |-> c]
    ELSE IF brace_next(c) = ":"
    THEN [ok |-> TRUE, id |-> SubSeq(it, 1, i), code |-> "none",
          c |-> brace_advance(c)]
    ELSE brace_parse_arg_id_loop(brace_advance(c), it, i + 1)

\* the iterator it taken before the opening brace is passed
brace_parse_arg_id_early(c) ==
    LET d == brace_advance(c)
    IN  IF ~brace_good(d)
        THEN [ok |-> FALSE, id |-> <<>>, code |-> "invalid_format_string",
              c |-> d]
        ELSE brace_parse_arg_id_loop(d, c.m_str, 0)

brace_parse_arg_id(c) ==
    LET d == brace_advance(c)
    IN  IF ~brace_good(d)
        THEN [ok |-> FALSE, id |-> <<>>, code |-> "invalid_format_string",
              c |-> d]
        ELSE brace_parse_arg_id_loop(d, d.m_str, 0)

----------------------------------------------------------------------------
(* basic_scanf_parse_context: the percent dialect.  c.m_str is the whole   *)
(* view, c.m_it the offset of m_it from m_str.begin().                     *)

scanf_good(c) == c.m_it # Len(c.m_str)

scanf_advance(c) == [c EXCEPT !.m_it = @ + 1]

scanf_backward(c) == [c EXCEPT !.m_it = @ - 1]

scanf_next(c) == c.m_str[c.m_it + 1]

RECURSIVE scanf_skip_loop(_)
scanf_skip_loop(c) ==
    IF scanf_good(c) /\ is_space(scanf_next(c))
    THEN scanf_skip_loop(scanf_advance(c))
    ELSE c

scanf_should_skip_ws(c) ==
    LET d == scanf_skip_loop(c)
    IN  [ret |-> d # c, c |-> d]

scanf_should_read_literal(c) ==
    IF scanf_next(c) # "%"
    THEN [ret |-> TRUE, c |-> c]
    ELSE IF Len(c.m_str) - c.m_it > 1 /\ c.m_str[c.m_it + 2] = "%"
         THEN [ret |-> TRUE, c |-> scanf_advance(c)]
         ELSE [ret |-> FALSE, c |-> c]

scanf_check_literal(c, ch) == ch = scanf_next(c)

scanf_check_arg_begin(c) == scanf_next(c) = "%"

scanf_check_arg_end(c) ==
    ~scanf_good(c) \/ scanf_check_arg_begin(c) \/ is_space(scanf_next(c))

\* the '%' not consumed by arg_begin
scanf_arg_begin_stay(c) == c

scanf_arg_begin(c) == scanf_advance(c)

\* the retreat made without the good() test
scanf_arg_end_always(c) == scanf_backward(c)

\* the retreat left out
scanf_arg_end_stay(c) == c

scanf_arg_end(c) == IF scanf_good(c) THEN scanf_backward(c) ELSE c

scanf_arg_handled(c) == c

\* a digit after the '%' taken as an argument index
scanf_parse_arg_id_digit(c) ==
    IF scanf_good(c) /\ scanf_next(c) \in Digits
    THEN [ok |-> TRUE, id |-> <<scanf_next(c)>>, code |-> "none",
          c |-> scanf_advance(c)]
    ELSE [ok |-> TRUE, id |-> <<>>, code |-> "none", c |-> c]

scanf_parse_arg_id(c) ==
    [ok |-> TRUE, id |-> <<>>, code |-> "none", c |-> c]

----------------------------------------------------------------------------
(* basic_empty_parse_context: the positional dialect *)

\* the flag left set after a true result
empty_should_skip_ws_keep(c) ==
    IF c.m_should_skip_ws
    THEN [ret |-> TRUE, c |-> c]
    ELSE [ret |-> FALSE, c |-> c]

empty_should_skip_ws(c) ==
    IF c.m_should_skip_ws
    THEN [ret |-> TRUE, c |-> [c EXCEPT !.m_should_skip_ws = FALSE]]
    ELSE [ret |-> FALSE, c |-> c]

empty_should_read_literal(c) == [ret |-> FALSE, c |-> c]

empty_check_literal(c, ch) == FALSE

\* the test  > 0  written as  >= 0
empty_good_ge(c) == c.m_args_left >= 0

empty_good(c) == c.m_args_left > 0

empty_advance(c) == c

empty_check_arg_begin(c) == TRUE

empty_check_arg_end(c) == TRUE

empty_arg_begin(c) == c

empty_arg_end(c) == c

\* the count decremented twice
empty_arg_handled_dec2(c) ==
    [c EXCEPT !.m_should_skip_ws = TRUE, !.m_args_left = @ - 2]

\* the flag not set by arg_handled
empty_arg_handled_noarm(c) == [c EXCEPT !.m_args_left = @ - 1]

empty_arg_handled(c) ==
    [c EXCEPT !.m_should_skip_ws = TRUE, !.m_args_left = @ - 1]

empty_parse_arg_id(c) ==
    [ok |-> TRUE, id |-> <<>>, code |-> "none", c |-> c]

----------------------------------------------------------------------------
(* The parse context a scanning context holds (context_base::parse_context):*)
(* each operation goes to the class the context was instantiated with.     *)

Cur == [m_str |-> m_str, m_it |-> m_it, m_args_left |-> m_args_left,
        m_should_skip_ws |-> m_should_skip_ws]

SetCur(c) ==
    /\ m_str' = c.m_str
    /\ m_it' = c.m_it
    /\ m_args_left' = c.m_args_left
    /\ m_should_skip_ws' = c.m_should_skip_ws

good(c) ==
    CASE dialect = "brace" -> brace_good(c)
      [] dialect = "scanf" -> scanf_good(c)
      [] OTHER -> empty_good(c)

advance(c) ==
    CASE dialect = "brace" -> brace_advance(c)
      [] dialect = "scanf" -> scanf_advance(c)
      [] OTHER -> empty_advance(c)

should_skip_ws(c) ==
    CASE dialect = "brace" -> brace_should_skip_ws(c)
      [] dialect = "scanf" -> scanf_should_skip_ws(c)
      [] OTHER -> empty_should_skip_ws(c)

should_read_literal(c) ==
    CASE dialect = "brace" -> brace_should_read_literal(c)
      [] dialect = "scanf" -> scanf_should_read_literal(c)
      [] OTHER -> empty_should_read_literal(c)

check_literal(c, ch) ==
    CASE dialect = "brace" -> brace_check_literal(c, ch)
      [] dialect = "scanf" -> scanf_check_literal(c, ch)
      [] OTHER -> empty_check_literal(c, ch)

check_arg_end(c) ==
    CASE dialect = "brace" -> brace_check_arg_end(c)
      [] dialect = "scanf" -> scanf_check_arg_end(c)
      [] OTHER -> empty_check_arg_end(c)

arg_begin(c) ==
    CASE dialect = "brace" -> brace_arg_begin(c)
      [] dialect = "scanf" -> scanf_arg_begin(c)
      [] OTHER -> empty_arg_begin(c)

arg_end(c) ==
    CASE dialect = "brace" -> brace_arg_end(c)
      [] dialect = "scanf" -> scanf_arg_end(c)
      [] OTHER -> empty_arg_end(c)

arg_handled(c) ==
    CASE dialect = "brace" -> brace_arg_handled(c)
      [] dialect = "scanf" -> scanf_arg_handled(c)
      [] OTHER -> empty_arg_handled(c)

parse_arg_id(c) ==
    CASE dialect = "brace" -> brace_parse_arg_id(c)
      [] dialect = "scanf" -> scanf_parse_arg_id(c)
      [] OTHER -> empty_parse_arg_id(c)

\* offset of the cursor from the start of the format string
Pos(c) == IF dialect = "brace" THEN Len(fmt) - Len(c.m_str) ELSE c.m_it

pos == Pos(Cur)

----------------------------------------------------------------------------
(* The scanner of one argument, seen from the parse context: it passes the *)
(* rest of the directive and stops where check_arg_end holds.              *)

RECURSIVE consume_spec(_)
consume_spec(c) ==
    IF ~good(c) THEN c
    ELSE IF check_arg_end(c) THEN c
    ELSE consume_spec(advance(c))

----------------------------------------------------------------------------
(* The id text of a directive *)

IsIndex(t) == t # <<>> /\ \A k \in 1..Len(t) : t[k] \in Digits

DigitVal(ch) == IF ch = "1" THEN 1 ELSE 0

RECURSIVE ParseIndex(_)
ParseIndex(t) ==
    IF t = <<>> THEN 0
    ELSE 10 * ParseIndex(SubSeq(t, 1, Len(t) - 1)) + DigitVal(t[Len(t)])

ResolveOp(t) ==
    IF t = <<>> THEN "next_arg" ELSE IF IsIndex(t) THEN "arg" ELSE "arg_named"

ResolveId(t) ==
    IF t = <<>> THEN next_arg(m_next_arg_id, nargs)
    ELSE IF IsIndex(t) THEN arg(m_next_arg_id, nargs, ParseIndex(t))
    ELSE arg_named(m_next_arg_id, nargs, t)

----------------------------------------------------------------------------
(* The driving loop of one scan call over a context *)

Init ==
    /\ dialect \in {"brace", "scanf", "empty"}
    /\ nargs \in 0..MaxArgs
    /\ m_next_arg_id = 0
    /\ calls = <<>>
    /\ fmt \in (CASE dialect = "empty" -> {<<>>}
                  [] dialect = "scanf" -> Strings \cup ScanfStrings
                  [] OTHER -> Strings)
    /\ m_str = fmt
    /\ m_it = 0
    /\ n_args \in (IF dialect = "empty" THEN -1..MaxCount ELSE {0})
    /\ m_args_left = n_args
    /\ m_should_skip_ws = FALSE
    /\ handled = 0
    /\ pc = "loop"
    /\ id = <<>>
    /\ viol = {}
    /\ last = NoStep
    /\ skips = 0

Fixed == <<dialect, nargs, fmt, n_args>>

\* while (pctx): leaving the loop
LoopExit ==
    /\ pc = "loop"
    /\ ~good(Cur)
    /\ pc' = "done"
    /\ UNCHANGED skips
    /\ UNCHANGED <<Fixed, m_next_arg_id, calls, m_str, m_it, m_args_left,
                   m_should_skip_ws, handled, id, viol, last>>

\* an iteration that skips whitespace
SkipWs ==
    /\ pc = "loop"
    /\ good(Cur)
    /\ LET r == should_skip_ws(Cur)
       IN  /\ r.ret
           /\ SetCur(r.c)
           /\ last' = [NoStep EXCEPT !.kind = "skip_ws", !.from = pos,
                                     !.to = Pos(r.c)]
    /\ skips' = skips + 1
    /\ UNCHANGED <<Fixed, m_next_arg_id, calls, handled, pc, id, viol>>

\* an iteration that finds a literal: should_read_literal
ReadLiteral ==
    /\ pc = "loop"
    /\ good(Cur)
    /\ ~should_skip_ws(Cur).ret
    /\ LET r == should_read_literal(Cur)
       IN  /\ r.ret
           /\ SetCur(r.c)
           /\ last' = [NoStep EXCEPT !.kind = "read_literal", !.from = pos,
                                     !.to = Pos(r.c)]
    /\ pc' = "literal"
    /\ UNCHANGED skips
    /\ UNCHANGED <<Fixed, m_next_arg_id, calls, handled, id, viol>>

\* the literal is matched against the character read from the stream
MatchLiteral ==
    /\ pc = "literal"
    /\ good(Cur)
    /\ \E ch \in Chars :
         IF check_literal(Cur, ch)
         THEN /\ SetCur(advance(Cur))
              /\ pc' = "loop"
              /\ last' = [NoStep EXCEPT !.kind = "literal", !.from = last.from,
                                        !.to = Pos(advance(Cur)), !.ch = ch]
         ELSE /\ pc' = "failed"
              /\ last' = [NoStep EXCEPT !.kind = "mismatch", !.from = last.from,
                                        !.to = pos]
              /\ UNCHANGED <<m_str, m_it, m_args_left, m_should_skip_ws>>
    /\ UNCHANGED skips
    /\ UNCHANGED <<Fixed, m_next_arg_id, calls, handled, id, viol>>

\* the same with the view exhausted: next() reads past the end, and on a
\* match advance() runs with good() false
MatchLiteralPastEnd ==
    /\ pc = "literal"
    /\ ~good(Cur)
    /\ \E o \in {"mismatch", "aborted", "undefined"} :
         /\ pc' = (IF o = "mismatch" THEN "failed" ELSE o)
         /\ viol' = viol \cup (IF o = "mismatch" THEN {"next_past_end"}
                               ELSE {"next_past_end", "advance_not_good"})
         /\ last' = [NoStep EXCEPT !.kind = o, !.from = last.from, !.to = pos]
    /\ UNCHANGED skips
    /\ UNCHANGED <<Fixed, m_next_arg_id, calls, m_str, m_it, m_args_left,
                   m_should_skip_ws, handled, id>>

\* the stream has no character to match the literal against
LiteralStreamEnd ==
    /\ pc = "literal"
    /\ pc' = "failed"
    /\ last' = [NoStep EXCEPT !.kind = "stream_end", !.from = last.from,
                              !.to = pos]
    /\ UNCHANGED skips
    /\ UNCHANGED <<Fixed, m_next_arg_id, calls, m_str, m_it, m_args_left,
                   m_should_skip_ws, handled, id, viol>>

\* an iteration that finds a directive: arg_begin
EnterDirective ==
    /\ pc = "loop"
    /\ good(Cur)
    /\ ~should_skip_ws(Cur).ret
    /\ ~should_read_literal(Cur).ret
    /\ SetCur(arg_begin(Cur))
    /\ pc' = "parse_id"
    /\ last' = [NoStep EXCEPT !.kind = "arg_begin", !.from = pos,
                              !.to = Pos(arg_begin(Cur))]
    /\ UNCHANGED skips
    /\ UNCHANGED <<Fixed, m_next_arg_id, calls, handled, id, viol>>

\* parse_arg_id with its precondition good() met
ParseArgId ==
    /\ pc = "parse_id"
    /\ good(Cur)
    /\ LET r == parse_arg_id(Cur)
       IN  /\ SetCur(r.c)
           /\ id' = r.id
           /\ pc' = (IF r.ok THEN "resolve" ELSE "failed")
           /\ last' = [NoStep EXCEPT
                         !.kind = (IF r.ok THEN "parse_id" ELSE "parse_id_error"),
                         !.from = pos, !.to = Pos(r.c), !.code = r.code]
    /\ UNCHANGED skips
    /\ UNCHANGED <<Fixed, m_next_arg_id, calls, handled, viol>>

\* parse_arg_id with good() false: SCN_EXPECT fails, or is compiled out
ParseArgIdExpect ==
    /\ pc = "parse_id"
    /\ ~good(Cur)
    /\ viol' = viol \cup {"parse_arg_id_expect"}
    /\ \E o \in {"aborted", "continue"} :
         /\ pc' = (IF o = "aborted" THEN "aborted"
                   ELSE IF dialect = "brace" THEN "undefined" ELSE "resolve")
         /\ last' = [NoStep EXCEPT !.kind = "expect", !.from = pos, !.to = pos]
    /\ id' = <<>>
    /\ UNCHANGED skips
    /\ UNCHANGED <<Fixed, m_next_arg_id, calls, m_str, m_it, m_args_left,
                   m_should_skip_ws, handled>>

\* the id text is resolved to an argument
Resolve ==
    /\ pc = "resolve"
    /\ LET r == ResolveId(id)
       IN  /\ m_next_arg_id' = r.m_next_arg_id
           /\ calls' = Append(calls, Call(ResolveOp(id), r, m_next_arg_id))
           /\ pc' = (CASE r.res.kind = "slot" -> "convert"
                       [] r.res.kind = "empty" -> "out_of_args"
                       [] OTHER -> "failed")
           /\ last' = [NoStep EXCEPT !.kind = "resolve", !.from = pos,
                                     !.to = pos, !.code = r.res.code]
    /\ UNCHANGED skips
    /\ UNCHANGED <<Fixed, m_str, m_it, m_args_left, m_should_skip_ws,
                   handled, id, viol>>

\* the argument's scanner passes the directive's body and reads the value
Convert ==
    /\ pc = "convert"
    /\ LET c == consume_spec(Cur)
           bad == dialect = "brace" /\ ~good(c)
       IN  /\ SetCur(c)
           /\ pc' = (IF bad THEN "failed" ELSE "arg_end")
           /\ last' = [NoStep EXCEPT
                         !.kind = (IF bad THEN "spec_error" ELSE "convert"),
                         !.from = pos, !.to = Pos(c), !.term = Pos(c),
                         !.code = (IF bad THEN "invalid_format_string"
                                   ELSE "none")]
    /\ UNCHANGED skips
    /\ UNCHANGED <<Fixed, m_next_arg_id, calls, handled, id, viol>>

\* the value does not convert
ConvertFail ==
    /\ pc = "convert"
    /\ LET c == consume_spec(Cur)
       IN  /\ ~(dialect = "brace" /\ ~good(c))
           /\ SetCur(c)
           /\ last' = [NoStep EXCEPT !.kind = "scan_error", !.from = pos,
                                     !.to = Pos(c), !.term = Pos(c)]
    /\ pc' = "failed"
    /\ UNCHANGED skips
    /\ UNCHANGED <<Fixed, m_next_arg_id, calls, handled, id, viol>>

\* arg_end
ExitDirective ==
    /\ pc = "arg_end"
    /\ SetCur(arg_end(Cur))
    /\ viol' = (IF dialect = "scanf" /\ scanf_good(Cur) /\ m_it = 0
                THEN viol \cup {"backward_at_begin"} ELSE viol)
    /\ pc' = "handled"
    /\ last' = [last EXCEPT !.kind = "arg_end", !.to = Pos(arg_end(Cur))]
    /\ UNCHANGED skips
    /\ UNCHANGED <<Fixed, m_next_arg_id, calls, handled, id>>

\* arg_handled, and the step past the directive's last character
ArgHandled ==
    /\ pc = "handled"
    /\ LET c == arg_handled(Cur)
           d == IF good(c) THEN advance(c) ELSE c
       IN  /\ SetCur(d)
           /\ last' = [last EXCEPT !.kind = "handled", !.to = Pos(d)]
    /\ handled' = handled + 1
    /\ pc' = "loop"
    /\ skips' = 0
    /\ UNCHANGED <<Fixed, m_next_arg_id, calls, id, viol>>

Next ==
    \/ LoopExit
    \/ SkipWs
    \/ ReadLiteral
    \/ MatchLiteral
    \/ MatchLiteralPastEnd
    \/ LiteralStreamEnd
    \/ EnterDirective
    \/ ParseArgId
    \/ ParseArgIdExpect
    \/ Resolve
    \/ Convert
    \/ ConvertFail
    \/ ExitDirective
    \/ ArgHandled

Spec == Init /\ [][Next]_vars

\* the loop runs on the calling thread and every conversion returns: a step
\* that can be taken is taken
FairSpec == Spec /\ WF_vars(Next)

----------------------------------------------------------------------------
(* Properties of the numbering and of the lookup *)

AllBefore(k, op) == \A j \in 1..(k - 1) : calls[j].op = op

NoneBefore(k, op) == \A j \in 1..k : calls[j].op # op

\* C1: mixing the two styles fails with invalid_format_string at the call
\* where the second style first appears: arg(i) after only next_arg() calls,
\* and next_arg() after only arg(i) calls.
C1_MixingFails ==
    \A k \in 2..Len(calls) :
        \/ /\ calls[k].op = "arg"
           /\ AllBefore(k, "next_arg")
        \/ /\ calls[k].op = "next_arg"
           /\ AllBefore(k, "arg")
        => calls[k].res = Failure("invalid_format_string")

\* C2: in a sequence of next_arg() calls only, the k-th call asks for index
\* k-1, moves the counter up by exactly one, and for k <= N returns slot k-1.
C2_AutomaticInOrder ==
    \A k \in 1..Len(calls) :
        (\A j \in 1..k : calls[j].op = "next_arg")
        => /\ calls[k].req = k - 1
           /\ calls[k].post = calls[k].pre + 1
           /\ (k <= nargs => calls[k].res = Slot(k - 1))

C2_Witness ==
    /\ Len(calls) >= 2
    /\ \A j \in 1..Len(calls) : calls[j].op = "next_arg"
    /\ nargs >= 2
    /\ calls[2].res = Slot(1)

\* C3: with no next_arg() before it, arg(i) with i < N returns slot i,
\* whatever explicit ids (repeats included) were resolved earlier.
C3_ExplicitExact ==
    \A k \in 1..Len(calls) :
        /\ calls[k].op = "arg"
        /\ NoneBefore(k, "next_arg")
        /\ calls[k].req < nargs
        => calls[k].res = Slot(calls[k].req)

C3_Witness ==
    /\ Len(calls) >= 3
    /\ \A j \in 1..3 : calls[j].op = "arg"
    /\ calls[1].req = 1 /\ calls[2].req = 0 /\ calls[3].req = 1
    /\ calls[3].res = Slot(1)

\* C4: in a sequence of next_arg() calls only, the call that asks for index
\* exactly N (call N+1) returns the empty result, for every N >= 0.
C4_BoundaryIsEmpty ==
    \A k \in 1..Len(calls) :
        /\ \A j \in 1..k : calls[j].op = "next_arg"
        /\ k = nargs + 1
        => calls[k].res = EmptyArg

\* C5: arg(i) made while explicit indexing is accepted, with no slot at i and
\* no slot at i-1 either, returns invalid_argument.
C5_OutOfRange ==
    \A k \in 1..Len(calls) :
        /\ calls[k].op = "arg"
        /\ calls[k].pre <= 0
        /\ calls[k].req >= nargs
        /\ (calls[k].req = 0 \/ calls[k].req - 1 >= nargs)
        => calls[k].res = Failure("invalid_argument")

C5_Witness ==
    /\ Len(calls) >= 1
    /\ nargs = 1
    /\ calls[1].op = "arg"
    /\ calls[1].req = 2
    /\ calls[1].res = Failure("invalid_argument")

----------------------------------------------------------------------------
(* Properties of the parse contexts under the driving loop *)

\* C6: in the brace and percent dialects the loop never evaluates next() or
\* check_literal on an exhausted cursor and never calls advance() with good()
\* false, the literal path after a consumed closing brace included.
C6_CursorNeverPastEnd ==
    dialect \in {"brace", "scanf"}
    => viol \cap {"next_past_end", "advance_not_good"} = {}

\* the cursor at offset p stands on an escape of its dialect
EscapeAt(p) ==
    /\ p + 2 <= Len(fmt)
    /\ fmt[p + 1] = fmt[p + 2]
    /\ \/ dialect = "brace" /\ fmt[p + 1] \in {"{", "}"}
       \/ dialect = "scanf" /\ fmt[p + 1] = "%"

\* C7: a literal step begun at {{, }} or %% matches exactly that one
\* character and leaves the cursor two characters further on.
C7_EscapeIsOneLiteral ==
    (pc = "loop" /\ last.kind = "literal" /\ EscapeAt(last.from))
    => /\ last.to = last.from + 2
       /\ pos = last.from + 2
       /\ last.ch = fmt[last.from + 1]

C7_Witness ==
    /\ dialect = "brace"
    /\ pc = "loop"
    /\ last.kind = "literal"
    /\ EscapeAt(last.from)
    /\ last.ch = "{"
    /\ pos = last.from + 2

\* positions after the opening brace at offset p that hold } or :
IdStops(p) == {j \in (p + 2)..Len(fmt) : fmt[j] \in {"}", ":"}}

FirstStop(p) == CHOOSE j \in IdStops(p) : \A k \in IdStops(p) : j <= k

\* C8: brace parse_arg_id called at { returns the characters between that {
\* and the first following } or :, leaves the cursor on the } or just past
\* the :, and fails with invalid_format_string when neither follows.
C8_ParseArgIdBrace ==
    (dialect = "brace" /\ last.kind \in {"parse_id", "parse_id_error"})
    => /\ fmt[last.from + 1] = "{"
       /\ IF IdStops(last.from) = {}
          THEN /\ pc = "failed"
               /\ last.kind = "parse_id_error"
               /\ last.code = "invalid_format_string"
          ELSE LET j == FirstStop(last.from)
               IN  /\ pc = "resolve"
                   /\ id = SubSeq(fmt, last.from + 2, j - 1)
                   /\ pos = (IF fmt[j] = "}" THEN j - 1 ELSE j)

C8_Witness ==
    /\ dialect = "brace"
    /\ pc = "resolve"
    /\ last.kind = "parse_id"
    /\ id = <<"a">>
    /\ fmt[pos] = ":"

\* the directive's body ended at a whitespace character
EndedAtSpace == last.term < Len(fmt) /\ fmt[last.term + 1] = " "

\* C9: percent check_arg_end holds exactly at end of input, at % and at a
\* space; a whitespace character that ends a directive's body is unconsumed
\* after arg_end and is what the loop stands on next.
C9_PercentDirectiveEnd ==
    dialect = "scanf"
    => /\ scanf_check_arg_end(Cur)
          <=> \/ m_it = Len(m_str)
              \/ m_str[m_it + 1] = "%"
              \/ m_str[m_it + 1] = " "
       /\ (pc = "handled" /\ last.kind = "arg_end" /\ EndedAtSpace)
          => pos <= last.term
       /\ (pc = "loop" /\ last.kind = "handled" /\ EndedAtSpace)
          => /\ pos = last.term
             /\ scanf_good(Cur)
             /\ scanf_next(Cur) = " "

C9_Witness ==
    /\ dialect = "scanf"
    /\ pc = "loop"
    /\ last.kind = "handled"
    /\ EndedAtSpace
    /\ fmt[1] = "%" /\ fmt[2] = "a"
    /\ pos = 2

\* C10: a positional cursor constructed with N >= 0 is exhausted after
\* exactly N arg_handled() calls and not before; the loop makes at most N
\* resolutions, exactly N when it runs to exhaustion, the k-th asking for
\* index k-1 and getting slot k-1 when the store holds it.
C10_PositionalCount ==
    (dialect = "empty" /\ n_args >= 0)
    => /\ handled <= n_args
       /\ ~empty_good(Cur) <=> handled = n_args
       /\ Len(calls) <= n_args
       /\ \A k \in 1..Len(calls) :
            /\ calls[k].op = "next_arg"
            /\ calls[k].req = k - 1
            /\ (k <= nargs => calls[k].res = Slot(k - 1))
       /\ pc = "done" => (handled = n_args /\ Len(calls) = n_args)

C10_Witness ==
    /\ dialect = "empty"
    /\ n_args = 2
    /\ pc = "done"
    /\ handled = 2
    /\ Len(calls) = 2
    /\ calls[2].res = Slot(1)


----------------------------------------------------------------------------
(* Named lookup *)

\* the step is a call of arg(name)
NamedStep ==
    /\ Len(calls') = Len(calls) + 1
    /\ calls'[Len(calls')].op = "arg_named"

\* C11: arg(name) returns the empty result for every name and every store,
\* never a slot and never a failure, and leaves the numbering state and the
\* cursor as they were.
C11_NamedIsEmpty ==
    [][NamedStep
       => /\ calls'[Len(calls')].res = EmptyArg
          /\ m_next_arg_id' = m_next_arg_id
          /\ Cur' = Cur]_vars

C11_Witness ==
    /\ Len(calls) = 3
    /\ calls[1].op = "arg_named"
    /\ calls[2].op = "next_arg"
    /\ calls[3].op = "arg_named"
    /\ calls[3].res = EmptyArg
    /\ nargs = 2
    /\ m_next_arg_id = 1


----------------------------------------------------------------------------
(* Movement of the cursor *)

\* C12: no brace operation lengthens the remaining view; in the percent
\* dialect the cursor moves backward only in arg_end, by exactly one
\* position, and only when it is not at the end.
C12_CursorMonotone ==
    [][/\ dialect = "brace" => Len(m_str') <= Len(m_str)
       /\ (dialect = "scanf" /\ m_it' < m_it)
          => /\ pc = "arg_end"
             /\ m_it' = m_it - 1
             /\ m_it # Len(m_str)]_vars

C12_Witness ==
    /\ dialect = "scanf"
    /\ pc = "handled"
    /\ last.kind = "arg_end"
    /\ last.term = 2
    /\ m_it = 1


----------------------------------------------------------------------------
(* The numbering state under next_arg_id / check_arg_id *)

\* C13: check_arg_id, for every index: from 0 (no id handed out) it returns
\* true and the state becomes -1; from a positive counter it returns false
\* and leaves the state; from -1 it returns true and the state stays -1.
C13_CheckArgId ==
    \A k \in 1..Len(calls) :
        calls[k].op = "check_arg_id"
        => /\ calls[k].pre = 0
              => (calls[k].res = TRUE /\ calls[k].post = -1)
           /\ calls[k].pre > 0
              => (calls[k].res = FALSE /\ calls[k].post = calls[k].pre)
           /\ calls[k].pre < 0
              => (calls[k].res = TRUE /\ calls[k].post = -1
                  /\ calls[k].pre = -1)

C13_Witness ==
    /\ Len(calls) = 3
    /\ calls[1].op = "check_arg_id" /\ calls[1].pre = 0 /\ calls[1].res = TRUE
    /\ calls[2].op = "check_arg_id" /\ calls[2].pre = -1
    /\ calls[2].res = TRUE
    /\ calls[3].op = "next_arg_id"
    /\ m_next_arg_id = -1

\* C14: next_arg_id called with the state at -1 returns 0 and leaves it at
\* -1; once the state is -1 no next_arg_id / check_arg_id call changes it.
C14_LockedStays ==
    \A k \in 1..Len(calls) :
        calls[k].pre = -1
        => /\ calls[k].post = -1
           /\ calls[k].op = "next_arg_id" => calls[k].res = 0

C14_Witness ==
    /\ Len(calls) = 3
    /\ calls[1].op = "check_arg_id"
    /\ calls[2].op = "next_arg_id" /\ calls[2].pre = -1 /\ calls[2].res = 0
    /\ calls[3].op = "check_arg_id" /\ calls[3].req = 2
    /\ m_next_arg_id = -1


----------------------------------------------------------------------------
(* Automatic numbering run past the end of the store *)

\* every call made so far is next_arg()
OnlyNextArg == \A k \in 1..Len(calls) : calls[k].op = "next_arg"

\* C15: with N >= 1 arguments and only next_arg() calls, calls 1..N return
\* the slots 0..N-1, call N+1 returns the empty argument, every later call
\* fails with invalid_argument; the counter advances on every call.
C15_RunPastEnd ==
    (dialect = "api" /\ nargs >= 1 /\ OnlyNextArg)
    => /\ m_next_arg_id = Len(calls)
       /\ \A k \in 1..Len(calls) :
            /\ calls[k].req = k - 1
            /\ k <= nargs => calls[k].res = Slot(k - 1)
            /\ k = nargs + 1 => calls[k].res = EmptyArg
            /\ k > nargs + 1 => calls[k].res = Failure("invalid_argument")

C15_Witness ==
    /\ dialect = "api"
    /\ nargs = 1
    /\ OnlyNextArg
    /\ Len(calls) = 3
    /\ calls[1].res = Slot(0)
    /\ calls[2].res = EmptyArg
    /\ calls[3].res = Failure("invalid_argument")


----------------------------------------------------------------------------
(* The Percent dialect's directives *)

\* C16: in the Percent dialect every parse_arg_id call the loop makes after
\* arg_begin finds good() true, returns the empty id and no failure.
C16_PercentParseArgId ==
    dialect = "scanf"
    => /\ "parse_arg_id_expect" \notin viol
       /\ last.kind # "parse_id_error"
       /\ last.kind # "expect"
       /\ last.kind = "parse_id" => id = <<>>


\* C17: in the Percent dialect every directive resolves through next_arg:
\* the k-th resolution asks for index k - 1 and, with at least k arguments
\* in the store, gets slot k - 1; the numbering state never becomes -1.
C17_PercentAutomatic ==
    dialect = "scanf"
    => /\ m_next_arg_id >= 0
       /\ m_next_arg_id = Len(calls)
       /\ Len(calls) \in {handled, handled + 1}
       /\ \A k \in 1..Len(calls) :
            /\ calls[k].op = "next_arg"
            /\ calls[k].req = k - 1
            /\ k <= nargs => calls[k].res = Slot(k - 1)

C17_Witness ==
    /\ dialect = "scanf"
    /\ pc = "done"
    /\ viol = {}
    /\ nargs = 2
    /\ handled = 2
    /\ Len(calls) = 2
    /\ calls[1].res = Slot(0)
    /\ calls[2].res = Slot(1)


----------------------------------------------------------------------------
(* The Positional dialect's one-shot whitespace flag *)

\* C18: in the Positional dialect should_skip_ws returns true at most once
\* between two arg_handled() calls: a true result finds the flag set and
\* clears it, and the flag is set again only by arg_handled.
C18_OneSkipPerDirective ==
    [][dialect = "empty"
       => /\ skips' <= 1
          /\ skips' > skips => (m_should_skip_ws /\ ~m_should_skip_ws')
          /\ (~m_should_skip_ws /\ m_should_skip_ws')
             => (pc = "handled" /\ skips' = 0)]_vars

C18_Witness ==
    /\ dialect = "empty"
    /\ pc = "parse_id"
    /\ handled = 2
    /\ skips = 1
    /\ ~m_should_skip_ws
    /\ last.kind = "arg_begin"

\* C19 as stated: before each of the N directives, the first one included,
\* the first should_skip_ws call returns true.
C19_SkipBeforeEach ==
    (dialect = "empty" /\ pc = "parse_id") => skips = 1

\* C19, amended: the first should_skip_ws call before the k-th directive
\* returns true exactly when k >= 2; before the first directive it returns
\* false, the flag being constructed false.
C19_SkipBeforeAllButFirst ==
    (dialect = "empty" /\ pc = "parse_id")
    => /\ handled < n_args
       /\ skips = 1 <=> handled >= 1

C19_Witness ==
    /\ dialect = "empty"
    /\ pc = "parse_id"
    /\ n_args = 2
    /\ handled = 1
    /\ skips = 1


----------------------------------------------------------------------------
(* Termination of the driving loop *)

\* the loop has returned: cursor exhausted, or a failure reported
Returned == pc \in {"done", "failed", "out_of_args"}

\* the loop has stopped in any way, a failed contract check included
Stopped == Returned \/ pc \in {"aborted", "undefined"}

\* C20: the loop terminates for every format string and every count: it
\* reaches cursor exhaustion or a failure after finitely many steps.
C20_Terminates == <>Returned

\* every run of the loop stops, if not by returning then in a failed
\* precondition of advance / next / parse_arg_id
C20_StopsSomehow == <>Stopped


----------------------------------------------------------------------------
(* The signed counter against the three-state contract *)

\* the contract's answer to the k-th call of the history, from state a
AbsCall(a, k) ==
    CASE calls[k].op = "next_arg_id" -> abs_next_automatic_id(a)
      [] calls[k].op = "check_arg_id" -> abs_lock_explicit(a, calls[k].req)
      [] OTHER -> [ret |-> "void", st |-> a]

\* the contract's state after the first k calls of the history
RECURSIVE AbsAfter(_)
AbsAfter(k) == IF k = 0 THEN AbsInit ELSE AbsCall(AbsAfter(k - 1), k).st

\* C21: run side by side over any sequence of next_arg_id / check_arg_id
\* calls, the signed counter and the three-state contract return the same
\* values at every step, the counter is the encoding of the contract's
\* state (0, k > 0, -1), and it is never below -1.
C21_EncodingRefines ==
    dialect = "num"
    => /\ m_next_arg_id >= -1
       /\ m_next_arg_id = Encode(AbsAfter(Len(calls)))
       /\ \A k \in 1..Len(calls) :
            /\ calls[k].res = AbsCall(AbsAfter(k - 1), k).ret
            /\ calls[k].post = Encode(AbsAfter(k))
            /\ calls[k].post >= -1
            /\ AbsAfter(k).tag = "automatic" <=> calls[k].post > 0
            /\ AbsAfter(k).tag = "explicit_locked" <=> calls[k].post = -1

C21_Witness ==
    /\ dialect = "num"
    /\ Len(calls) = 3
    /\ calls[1].op = "next_arg_id" /\ calls[1].res = 0
    /\ calls[2].op = "check_arg_id" /\ calls[2].res = FALSE
    /\ calls[3].op = "next_arg_id" /\ calls[3].res = 1
    /\ AbsAfter(3) = [tag |-> "automatic", counter |-> 2]
    /\ m_next_arg_id = 2


----------------------------------------------------------------------------
(* Preconditions in the Positional dialect *)

\* C22: in the Positional dialect, for every count (zero and negative
\* included), the loop never takes the literal path (the only reader of
\* next()), parse_arg_id is only called with good() true, no precondition
\* fails, and a count that started non-negative never becomes negative.
C22_PositionalNoAssertion ==
    dialect = "empty"
    => /\ viol = {}
       /\ pc \notin {"literal", "aborted", "undefined"}
       /\ pc = "parse_id" => empty_good(Cur)
       /\ last.kind \notin {"read_literal", "literal", "mismatch", "expect"}
       /\ n_args >= 0 => m_args_left >= 0
       /\ n_args >= 0 => m_args_left = n_args - handled
       /\ n_args < 0 => (m_args_left = n_args /\ pc \in {"loop", "done"})

C22_Witness ==
    /\ dialect = "empty"
    /\ n_args = 3
    /\ nargs = 2
    /\ pc = "parse_id"
    /\ handled = 2
    /\ m_args_left = 1
    /\ viol = {}


----------------------------------------------------------------------------
(* The Percent dialect's retreat *)

\* C23: in the Percent dialect the cursor is at least one past the start
\* from arg_begin to arg_end of a directive, so backward() in arg_end never
\* runs at m_str.begin(), and the cursor index stays within 0..Len(m_str)
\* after every step of the loop.
C23_PercentIndexInRange ==
    dialect = "scanf"
    => /\ "backward_at_begin" \notin viol
       /\ "advance_not_good" \notin viol
       /\ m_it >= 0
       /\ m_it <= Len(m_str)
       /\ pc \in {"parse_id", "resolve", "convert", "arg_end"} => m_it >= 1

C23_Witness ==
    /\ dialect = "scanf"
    /\ pc = "handled"
    /\ last.kind = "arg_end"
    /\ last.term = 1
    /\ m_it = 0
    /\ viol = {}

====
